---- MODULE Spec2Model ----
(***************************************************************************)
(* Model of the todo store of src/src/todo_server.py: the TodoItem record, *)
(* the TodoStorage operations with their JSON persistence, and            *)
(* handle_call_tool, the dispatcher of the named operations.               *)
(*                                                                         *)
(* Encoding of Python values:                                              *)
(*   - datetime.now().isoformat() is a non-empty string; the stamps are    *)
(*     the positive integers of Times, the empty string "" of a          *)
(*     timestamp field is EmptyStr and Python's None is None;              *)
(*   - a TodoItem is a record of its seven dataclass fields plus attrs,    *)
(*     the names that setattr has put in the instance's __dict__ on top of *)
(*     a method of the class (they are no dataclass fields: asdict drops   *)
(*     them and __eq__ ignores them);                                      *)
(*   - keyword arguments are a sequence of <<key, value>> pairs, in the    *)
(*     order in which Python keeps them.                                   *)
(***************************************************************************)
EXTENDS Integers, Sequences, FiniteSets, TLC

VARIABLES
    todos,      \* TodoStorage.todos: the ordered collection
    next_id,    \* TodoStorage._next_id
    file,       \* the content of the file at storage_path
    disk,       \* what a write to storage_path meets: "ok", "denied", "full"
    adds,       \* add_todo calls made on this TodoStorage instance so far
    family,     \* the keyword names the caller of this run gives update_todo
    last        \* the last call: operation, id argument, outcome, result

vars == <<todos, next_id, file, disk, adds, family, last>>

\* ---------------------------------------------------------------- bounds
MaxId == 2

\* ------------------------------------------------------- value encoding
None == -1
EmptyStr == 0
Times == {1, 2}

Titles == {"a", "b"}
Descriptions == {"", "d"}
Priorities == {"low", "medium", "high"}
PriorityInputs == {"medium", "high", "urgent"}

Fields == {"id", "title", "description", "completed", "created_at",
           "completed_at", "priority"}
Methods == {"complete", "uncomplete"}

\* ------------------------------------------------------------- TodoItem
Falsy(v) == v = EmptyStr \/ v = None

post_init(item, now) ==
    IF Falsy(item.created_at) THEN [item EXCEPT !.created_at = now] ELSE item

TodoItem(id, title, description, priority, now) ==
    post_init([id |-> id, title |-> title, description |-> description,
               completed |-> FALSE, created_at |-> EmptyStr,
               completed_at |-> None, priority |-> priority, attrs |-> {}],
              now)

complete(todo, now) ==
    [todo EXCEPT !.completed = TRUE, !.completed_at = now]

uncomplete(todo) ==
    [todo EXCEPT !.completed = FALSE, !.completed_at = None]

asdict(todo) ==
    [id |-> todo.id, title |-> todo.title, description |-> todo.description,
     completed |-> todo.completed, created_at |-> todo.created_at,
     completed_at |-> todo.completed_at, priority |-> todo.priority]

\* dict.get(key, default), and the value a keyword argument that was left out
\* gets from its default
get(d, key, default) == IF key \in DOMAIN d THEN d[key] ELSE default

\* TodoItem(**item) raises TypeError when item lacks a field that has no
\* default or holds a key that is no field
TodoItem_raises(item) ==
    \/ ~({"id", "title"} \subseteq DOMAIN item)
    \/ ~(DOMAIN item \subseteq Fields)

fromdict(item, now) ==
    post_init([id |-> item.id, title |-> item.title,
               description |-> get(item, "description", ""),
               completed |-> get(item, "completed", FALSE),
               created_at |-> get(item, "created_at", EmptyStr),
               completed_at |-> get(item, "completed_at", None),
               priority |-> get(item, "priority", "medium"), attrs |-> {}],
              now)

\* ---------------------------------------------------------- persistence
\* the file is missing, holds a document json.dump wrote in full ("doc"), or
\* holds a strict prefix of one ("torn"), which json.load rejects
MissingFile == [kind |-> "missing", todos |-> <<>>, next_id |-> 0]
TornFile == [kind |-> "torn", todos |-> <<>>, next_id |-> 0]

\* what another program can leave at storage_path: bytes that are no text in
\* the encoding open() reads with ("bytes"), a JSON text whose top-level value
\* is an array ("array"), a JSON object whose todos value is a number
\* ("todos_number"), and a JSON object ("doc") with or without its keys
BytesFile == [kind |-> "bytes"]
ArrayFile == [kind |-> "array"]
TodosNumberFile == [kind |-> "todos_number"]

dump(ts, nid) ==
    [kind |-> "doc", todos |-> [i \in DOMAIN ts |-> asdict(ts[i])],
     next_id |-> nid]

\* the exception the try block of load() ends in on file f, "none" when it
\* runs to its end: f.read() inside json.load, json.load, data.get, the
\* iteration over data.get('todos', []) and TodoItem(**item)
load_exception(f) ==
    CASE f.kind = "bytes" -> "UnicodeDecodeError"
      [] f.kind = "torn" -> "JSONDecodeError"
      [] f.kind = "array" -> "AttributeError"
      [] f.kind = "todos_number" -> "TypeError"
      [] f.kind = "doc" ->
            IF \E i \in DOMAIN get(f, "todos", <<>>) :
                    TodoItem_raises(f.todos[i])
            THEN "TypeError" ELSE "none"
      [] OTHER -> "none"

\* except (json.JSONDecodeError, KeyError)
Caught == {"JSONDecodeError", "KeyError"}

load_raises(f) == load_exception(f) \notin Caught \cup {"none"}

\* mutant of load_todos: the records that stand in full in a torn file are
\* read
load_todos_salvaging(f, now) ==
    IF f.kind \in {"doc", "torn"}
    THEN LET items == get(f, "todos", <<>>)
         IN  [i \in DOMAIN items |-> fromdict(items[i], now)]
    ELSE <<>>

load_todos(f, now) ==
    IF f.kind = "doc"
    THEN LET items == get(f, "todos", <<>>)
         IN  [i \in DOMAIN items |-> fromdict(items[i], now)]
    ELSE <<>>

\* mutant of load_next_id: the counter is set one above the highest id among
\* the records of the file
load_next_id_after_records(f) ==
    LET items == IF f.kind = "doc" THEN get(f, "todos", <<>>) ELSE <<>>
    IN  IF items = <<>> THEN 1
        ELSE 1 + CHOOSE m \in {items[i].id : i \in DOMAIN items} :
                    \A i \in DOMAIN items : items[i].id <= m

load_next_id(f) == IF f.kind = "doc" THEN get(f, "next_id", 1) ELSE 1

\* ---------------------------------------------------------------- lookup
\* index of the first record whose id is todo_id, 0 when there is none
get_index(ts, todo_id) ==
    IF \E i \in DOMAIN ts : ts[i].id = todo_id
    THEN CHOOSE i \in DOMAIN ts :
            /\ ts[i].id = todo_id
            /\ \A j \in DOMAIN ts : ts[j].id = todo_id => i <= j
    ELSE 0

\* list.remove(x): drops the first element equal to x (dataclass equality)
remove(ts, x) ==
    LET k == CHOOSE i \in DOMAIN ts :
                /\ asdict(ts[i]) = asdict(x)
                /\ \A j \in DOMAIN ts : asdict(ts[j]) = asdict(x) => i <= j
    IN  [i \in 1..(Len(ts) - 1) |-> IF i < k THEN ts[i] ELSE ts[i + 1]]

\* -------------------------------------------------------------- setattr
\* hasattr(todo, key): the dataclass fields, the methods and the attributes
\* every object has; "bogus" stands for a name no TodoItem has
hasattr(key) == key \in Fields \cup Methods \cup {"__class__"}

\* setattr(todo, key, value) with a value that is no class raises TypeError
\* for __class__
setattr_raises(key) == key = "__class__"

setattr(todo, key, value) ==
    CASE key = "id"           -> [todo EXCEPT !.id = value]
      [] key = "title"        -> [todo EXCEPT !.title = value]
      [] key = "description"  -> [todo EXCEPT !.description = value]
      [] key = "completed"    -> [todo EXCEPT !.completed = value]
      [] key = "created_at"   -> [todo EXCEPT !.created_at = value]
      [] key = "completed_at" -> [todo EXCEPT !.completed_at = value]
      [] key = "priority"     -> [todo EXCEPT !.priority = value]
      [] key \in Methods      -> [todo EXCEPT !.attrs = @ \cup {key}]
      [] OTHER                -> todo

\* the loop of update_todo over kwargs.items(): the record after the loop and
\* whether the loop ended in an exception
RECURSIVE apply_kwargs(_, _)
apply_kwargs(todo, kwargs) ==
    IF kwargs = <<>> THEN [todo |-> todo, raised |-> FALSE]
    ELSE LET key == Head(kwargs)[1]
             value == Head(kwargs)[2]
         IN  IF ~hasattr(key) THEN apply_kwargs(todo, Tail(kwargs))
             ELSE IF setattr_raises(key) THEN [todo |-> todo, raised |-> TRUE]
             ELSE apply_kwargs(setattr(todo, key, value), Tail(kwargs))

\* ---------------------------------------------------------- TodoStorage
\* What a call leaves behind: the store's fields, the file, and what the
\* caller gets. res: "todo" (a TodoItem, in out), "none" (None), "true",
\* "false", "list" (the records, in out), "text" (a TextContent, in out),
\* "raised" (an exception left the call). saved: "no" (save() was not
\* called), "ok" (it wrote the file), "failed" (it caught an exception).
Outcome(ts, nid, f, res, out, saved) ==
    [todos |-> ts, next_id |-> nid, file |-> f, res |-> res, out |-> out,
     saved |-> saved]

NoChange(res, out) == Outcome(todos, next_id, file, res, out, "no")

\* save(): the whole document replaces the content of the file. open(.., 'w')
\* fails on a path that cannot be written and leaves the file as it is; a
\* write that fails after open has truncated the file leaves a prefix. The
\* exception is caught and printed.
save(ts, nid) ==
    CASE disk = "ok" -> dump(ts, nid)
      [] disk = "denied" -> file
      [] disk = "full" -> TornFile

saved == IF disk = "ok" THEN "ok" ELSE "failed"

\* mutant of add_todo: the record is put in front of the collection
add_todo_in_front(title, description, priority, now) ==
    LET todo == TodoItem(next_id, title, description, priority, now)
        ts == <<todo>> \o todos
        nid == next_id + 1
    IN  Outcome(ts, nid, save(ts, nid), "todo", <<todo>>, saved)

\* mutant of add_todo: the id is taken from the length of the collection
add_todo_by_length(title, description, priority, now) ==
    LET todo == TodoItem(Len(todos) + 1, title, description, priority, now)
        ts == Append(todos, todo)
        nid == next_id + 1
    IN  Outcome(ts, nid, save(ts, nid), "todo", <<todo>>, saved)

add_todo(title, description, priority, now) ==
    LET todo == TodoItem(next_id, title, description, priority, now)
        ts == Append(todos, todo)
        nid == next_id + 1
    IN  Outcome(ts, nid, save(ts, nid), "todo", <<todo>>, saved)

\* mutant of get_todo: the record found is taken out of the collection
get_todo_popping(todo_id) ==
    LET i == get_index(todos, todo_id)
    IN  IF i = 0 THEN NoChange("none", <<>>)
        ELSE Outcome(remove(todos, todos[i]), next_id, file, "todo",
                     <<todos[i]>>, "no")

get_todo(todo_id) ==
    LET i == get_index(todos, todo_id)
    IN  IF i = 0 THEN NoChange("none", <<>>) ELSE NoChange("todo", <<todos[i]>>)

get_all_todos == NoChange("list", todos)

\* update_todo(self, todo_id, **kwargs): a keyword argument that has the name
\* of a parameter makes the call itself raise TypeError (multiple values for
\* the argument), before the body runs
Parameters == {"self", "todo_id"}

binds_twice(kwargs) == \E i \in DOMAIN kwargs : kwargs[i][1] \in Parameters

\* mutant of update_todo: the record is changed and save() is left out
update_todo_unsaved(todo_id, kwargs) ==
    LET i == get_index(todos, todo_id)
    IN  IF binds_twice(kwargs) THEN NoChange("raised", <<>>)
        ELSE IF i = 0 THEN NoChange("none", <<>>)
        ELSE LET r == apply_kwargs(todos[i], kwargs)
                 ts == [todos EXCEPT ![i] = r.todo]
             IN  Outcome(ts, next_id, file, IF r.raised THEN "raised" ELSE "todo",
                         IF r.raised THEN <<>> ELSE <<r.todo>>, "no")

\* mutant of update_todo: the changed record is put at the end
update_todo_moved(todo_id, kwargs) ==
    LET i == get_index(todos, todo_id)
    IN  IF binds_twice(kwargs) THEN NoChange("raised", <<>>)
        ELSE IF i = 0 THEN NoChange("none", <<>>)
        ELSE LET r == apply_kwargs(todos[i], kwargs)
                 ts == Append(remove(todos, todos[i]), r.todo)
             IN  IF r.raised
                 THEN Outcome(ts, next_id, file, "raised", <<>>, "no")
                 ELSE Outcome(ts, next_id, save(ts, next_id), "todo",
                              <<r.todo>>, saved)

update_todo(todo_id, kwargs) ==
    LET i == get_index(todos, todo_id)
    IN  IF binds_twice(kwargs) THEN NoChange("raised", <<>>)
        ELSE IF i = 0 THEN NoChange("none", <<>>)
        ELSE LET r == apply_kwargs(todos[i], kwargs)
                 ts == [todos EXCEPT ![i] = r.todo]
             IN  IF r.raised
                 THEN Outcome(ts, next_id, file, "raised", <<>>, "no")
                 ELSE Outcome(ts, next_id, save(ts, next_id), "todo",
                              <<r.todo>>, saved)

\* mutant of delete_todo: the counter goes back by one when the record that
\* was added last is deleted
delete_todo_reusing(todo_id) ==
    LET i == get_index(todos, todo_id)
    IN  IF i = 0 THEN NoChange("false", <<>>)
        ELSE LET ts == remove(todos, todos[i])
                 nid == IF todos[i].id = next_id - 1 THEN next_id - 1
                        ELSE next_id
             IN  Outcome(ts, nid, save(ts, nid), "true", <<>>, saved)

\* mutant of delete_todo: the last record is moved to the place of the one
\* that goes
delete_todo_swapped(todo_id) ==
    LET i == get_index(todos, todo_id)
        n == Len(todos)
    IN  IF i = 0 THEN NoChange("false", <<>>)
        ELSE LET ts == [j \in 1..(n - 1) |-> IF j = i THEN todos[n] ELSE todos[j]]
             IN  Outcome(ts, next_id, save(ts, next_id), "true", <<>>, saved)

\* mutant of delete_todo: save() is called whether or not a record was found
delete_todo_saves_always(todo_id) ==
    LET i == get_index(todos, todo_id)
    IN  IF i = 0
        THEN Outcome(todos, next_id, save(todos, next_id), "false", <<>>, saved)
        ELSE LET ts == remove(todos, todos[i])
             IN  Outcome(ts, next_id, save(ts, next_id), "true", <<>>, saved)

delete_todo(todo_id) ==
    LET i == get_index(todos, todo_id)
    IN  IF i = 0 THEN NoChange("false", <<>>)
        ELSE LET ts == remove(todos, todos[i])
             IN  Outcome(ts, next_id, save(ts, next_id), "true", <<>>, saved)

\* todo.complete() and todo.uncomplete() raise TypeError once setattr has put
\* a string under that name in the instance: a str is not callable
\* mutant of complete_todo: the record is put back when the write failed
complete_todo_rolled_back(todo_id, now) ==
    LET i == get_index(todos, todo_id)
    IN  IF i = 0 THEN NoChange("none", <<>>)
        ELSE IF "complete" \in todos[i].attrs THEN NoChange("raised", <<>>)
        ELSE LET ts == [todos EXCEPT ![i] = complete(@, now)]
             IN  IF disk = "ok"
                 THEN Outcome(ts, next_id, save(ts, next_id), "todo", <<ts[i]>>,
                              saved)
                 ELSE Outcome(todos, next_id, save(ts, next_id), "todo",
                              <<todos[i]>>, saved)

complete_todo(todo_id, now) ==
    LET i == get_index(todos, todo_id)
    IN  IF i = 0 THEN NoChange("none", <<>>)
        ELSE IF "complete" \in todos[i].attrs THEN NoChange("raised", <<>>)
        ELSE LET ts == [todos EXCEPT ![i] = complete(@, now)]
             IN  Outcome(ts, next_id, save(ts, next_id), "todo", <<ts[i]>>,
                         saved)

uncomplete_todo(todo_id) ==
    LET i == get_index(todos, todo_id)
    IN  IF i = 0 THEN NoChange("none", <<>>)
        ELSE IF "uncomplete" \in todos[i].attrs THEN NoChange("raised", <<>>)
        ELSE LET ts == [todos EXCEPT ![i] = uncomplete(@)]
             IN  Outcome(ts, next_id, save(ts, next_id), "todo", <<ts[i]>>,
                         saved)

\* ------------------------------------------------------ handle_call_tool
\* arguments is a dict: a sequence of <<key, value>> pairs with distinct keys
Has(arguments, key) == \E i \in DOMAIN arguments : arguments[i][1] = key
Arg(arguments, key) ==
    arguments[CHOOSE i \in DOMAIN arguments : arguments[i][1] = key][2]
ArgOr(arguments, key, default) ==
    IF Has(arguments, key) THEN Arg(arguments, key) ELSE default

Text(out) == NoChange("text", out)
Raised == NoChange("raised", <<>>)
AsText(o, out) == [o EXCEPT !.res = "text", !.out = out]

priority_emoji(priority) ==
    CASE priority = "low" -> "blue"
      [] priority = "medium" -> "yellow"
      [] priority = "high" -> "red"

\* the lines of one record in the text of list_todos
todo_lines(todo) ==
    <<<<IF todo.completed THEN "done" ELSE "open", todo.id,
        priority_emoji(todo.priority), todo.title>>>>
    \o (IF todo.description # "" THEN <<<<todo.description>>>> ELSE <<>>)

\* mutant of Filter: keeps the records the filter is to drop
Filter_inverted(ts, key, value) ==
    SelectSeq(ts, LAMBDA t : IF key = "completed" THEN t.completed # value
                             ELSE t.priority # value)

RECURSIVE Filter(_, _, _)
Filter(ts, key, value) ==
    IF ts = <<>> THEN <<>>
    ELSE LET t == Head(ts)
             keep == IF key = "completed" THEN t.completed = value
                     ELSE t.priority = value
         IN  (IF keep THEN <<t>> ELSE <<>>) \o Filter(Tail(ts), key, value)

RECURSIVE Lines(_)
Lines(ts) == IF ts = <<>> THEN <<>> ELSE todo_lines(Head(ts)) \o Lines(Tail(ts))

list_todos_filter(arguments) ==
    LET all == get_all_todos.out
        byCompleted == IF Has(arguments, "completed")
                       THEN Filter(all, "completed", Arg(arguments, "completed"))
                       ELSE all
    IN  IF Has(arguments, "priority")
        THEN Filter(byCompleted, "priority", Arg(arguments, "priority"))
        ELSE byCompleted

\* the keys handle_call_tool reads with arguments[key], which raises KeyError
\* when the key is not there
IdTools ==
    {"get_todo", "update_todo", "complete_todo", "uncomplete_todo",
     "delete_todo"}

Required(name) ==
    CASE name = "add_todo" -> {"title"}
      [] name \in IdTools -> {"id"}
      [] OTHER -> {}

\* mutant of unknown_tool: the else branch raises
unknown_tool_raised(name) == Raised

\* the else branch: a name that is none of the seven
unknown_tool(name) == Text(<<"Unknown tool", name>>)

handle_call_tool(name, arguments, now) ==
    IF \E key \in Required(name) : ~Has(arguments, key) THEN Raised ELSE
    CASE name = "add_todo" ->
            LET o == add_todo(Arg(arguments, "title"),
                              ArgOr(arguments, "description", ""),
                              ArgOr(arguments, "priority", "medium"), now)
            IN  AsText(o, <<"Added todo item", o.out[1].id, o.out[1].title>>)
      [] name = "list_todos" ->
            LET ts == list_todos_filter(arguments)
            IN  IF ts = <<>> THEN Text(<<"No todos found">>)
                ELSE IF \E i \in DOMAIN ts : ts[i].priority \notin Priorities
                THEN Raised
                ELSE Text(<<"Todo List:", Lines(ts)>>)
      [] name = "get_todo" ->
            LET todo_id == Arg(arguments, "id")
                o == get_todo(todo_id)
            IN  IF o.res = "none" THEN Text(<<"not found", todo_id>>)
                ELSE IF o.out[1].priority \notin Priorities THEN Raised
                ELSE Text(<<"Todo", asdict(o.out[1]),
                            priority_emoji(o.out[1].priority)>>)
      [] name = "update_todo" ->
            LET todo_id == Arg(arguments, "id")
                updates == SelectSeq(arguments, LAMBDA kv : kv[1] # "id")
                o == update_todo(todo_id, updates)
            IN  IF o.res = "raised" THEN o
                ELSE IF o.res = "none" THEN AsText(o, <<"not found", todo_id>>)
                ELSE AsText(o, <<"Updated todo item", o.out[1].id,
                                 o.out[1].title>>)
      [] name = "complete_todo" ->
            LET todo_id == Arg(arguments, "id")
                o == complete_todo(todo_id, now)
            IN  IF o.res = "raised" THEN o
                ELSE IF o.res = "none" THEN AsText(o, <<"not found", todo_id>>)
                ELSE AsText(o, <<"Completed todo item", o.out[1].id,
                                 o.out[1].title>>)
      [] name = "uncomplete_todo" ->
            LET todo_id == Arg(arguments, "id")
                o == uncomplete_todo(todo_id)
            IN  IF o.res = "raised" THEN o
                ELSE IF o.res = "none" THEN AsText(o, <<"not found", todo_id>>)
                ELSE AsText(o, <<"Uncompleted todo item", o.out[1].id,
                                 o.out[1].title>>)
      [] name = "delete_todo" ->
            LET todo_id == Arg(arguments, "id")
                o == delete_todo(todo_id)
            IN  IF o.res = "false" THEN AsText(o, <<"not found", todo_id>>)
                ELSE AsText(o, <<"Deleted todo item", todo_id>>)
      [] OTHER -> unknown_tool(name)

\* --------------------------------------------------------------- inputs
Ids == 1..MaxId

FieldValues(key) ==
    CASE key = "id"           -> Ids
      [] key = "title"        -> Titles
      [] key = "description"  -> Descriptions
      [] key = "completed"    -> BOOLEAN
      [] key = "created_at"   -> {EmptyStr}
      [] key = "completed_at" -> {None} \cup Times
      [] key = "priority"     -> PriorityInputs
      [] OTHER                -> {"x"}

KwPairs(keys) == UNION {{<<k, v>> : v \in FieldValues(k)} : k \in keys}

\* The keyword arguments update_todo is called with in a run whose caller
\* uses the names of family fam: none, one name, and for __class__ (whose
\* setattr raises) a title before or after it; todo_id is the name of a
\* parameter of update_todo. The runs with a failing disk
\* and the runs through handle_call_tool use some of the families.
Families ==
    {{k} : k \in Fields \cup Methods \cup {"__class__", "bogus", "todo_id"}}
FaultFamilies == {{"bogus"}}
ToolFamilies ==
    {{k} : k \in {"title", "priority", "completed", "uncomplete", "__class__",
                  "bogus", "todo_id"}}
UpdateKwargs(fam) ==
    {<<>>} \cup {<<p>> : p \in KwPairs(fam)}
           \cup IF "__class__" \in fam
                THEN {<<p, <<"__class__", "x">>>> : p \in KwPairs({"title"})}
                     \cup {<<<<"__class__", "x">>, p>> : p \in KwPairs({"title"})}
                ELSE {}

\* add_todo(title, description, priority) and the same as tool arguments,
\* with the optional keys left out where they have their default
AddArgs == {<<"a", "", "medium">>, <<"b", "d", "high">>, <<"b", "", "urgent">>}
AddArguments ==
    {<<<<"title", "a">>>>,
     <<<<"title", "b">>, <<"description", "d">>, <<"priority", "high">>>>,
     <<<<"title", "b">>, <<"priority", "urgent">>>>}

ListArguments ==
    LET c == {<<>>} \cup {<<<<"completed", b>>>> : b \in BOOLEAN}
        p == {<<>>} \cup {<<<<"priority", v>>>> : v \in PriorityInputs}
    IN  {x \o y : x \in c, y \in p}

IdArguments == {<<<<"id", id>>>> : id \in Ids}

\* the dict of an update_todo call holds the id once, under the key id
UpdateArguments(fam) ==
    {<<<<"id", id>>>> \o kw : id \in Ids, kw \in UpdateKwargs(fam \ {"id"})}

\* -------------------------------------------------------------- actions
Call(op, id, o) ==
    /\ todos' = o.todos
    /\ next_id' = o.next_id
    /\ file' = o.file
    /\ last' = [op |-> op, id |-> id, res |-> o.res, out |-> o.out,
                saved |-> o.saved]
    /\ UNCHANGED <<family, disk>>

Init ==
    /\ file = MissingFile
    /\ todos = <<>>
    /\ next_id = 1
    /\ disk = "ok"
    /\ adds = 0
    /\ family \in Families
    /\ last = [op |-> "init", id |-> 0, res |-> "none", out |-> <<>>,
               saved |-> "no"]

\* TodoStorage(storage_path) on the path of the running store: __init__, load.
\* An exception that load() does not catch leaves the constructor: the caller
\* gets no new store and keeps the one it had.
Construct ==
    IF load_raises(file)
    THEN Call("init", 0, NoChange("raised", <<>>)) /\ UNCHANGED adds
    ELSE \E now \in Times :
            /\ Call("init", 0, Outcome(load_todos(file, now),
                                       load_next_id(file), file, "none", <<>>,
                                       "no"))
            /\ adds' = 0

AddTodo ==
    /\ next_id <= MaxId
    /\ \E a \in AddArgs, now \in Times :
          Call("add", 0, add_todo(a[1], a[2], a[3], now))
    /\ adds' = adds + 1

GetTodo == (\E id \in Ids : Call("get", id, get_todo(id))) /\ UNCHANGED adds

GetAllTodos == Call("list", 0, get_all_todos) /\ UNCHANGED adds

UpdateTodo ==
    /\ \E id \in Ids, kw \in UpdateKwargs(family) :
          Call("update", id, update_todo(id, kw))
    /\ UNCHANGED adds

DeleteTodo ==
    (\E id \in Ids : Call("delete", id, delete_todo(id))) /\ UNCHANGED adds

CompleteTodo ==
    /\ \E id \in Ids, now \in Times : Call("complete", id, complete_todo(id, now))
    /\ UNCHANGED adds

UncompleteTodo ==
    /\ \E id \in Ids : Call("uncomplete", id, uncomplete_todo(id))
    /\ UNCHANGED adds

\* the calls of handle_call_tool
Tool(name, arguments, now) ==
    Call(name, ArgOr(arguments, "id", 0),
         handle_call_tool(name, arguments, now))

ToolAddTodo ==
    /\ next_id <= MaxId
    /\ \E a \in AddArguments, now \in Times : Tool("add_todo", a, now)
    /\ adds' = adds + 1

ToolListTodos ==
    (\E a \in ListArguments : Tool("list_todos", a, 1)) /\ UNCHANGED adds

ToolGetTodo ==
    (\E a \in IdArguments : Tool("get_todo", a, 1)) /\ UNCHANGED adds

ToolUpdateTodo ==
    /\ \E a \in UpdateArguments(family) : Tool("update_todo", a, 1)
    /\ UNCHANGED adds

ToolCompleteTodo ==
    /\ \E a \in IdArguments, now \in Times : Tool("complete_todo", a, now)
    /\ UNCHANGED adds

ToolUncompleteTodo ==
    (\E a \in IdArguments : Tool("uncomplete_todo", a, 1)) /\ UNCHANGED adds

ToolDeleteTodo ==
    (\E a \in IdArguments : Tool("delete_todo", a, 1)) /\ UNCHANGED adds

ToolUnknown == Tool("archive_todo", <<>>, 1) /\ UNCHANGED adds

\* one TodoStorage instance, made on a missing file, called directly
Next ==
    \/ AddTodo
    \/ GetTodo
    \/ GetAllTodos
    \/ UpdateTodo
    \/ DeleteTodo
    \/ CompleteTodo
    \/ UncompleteTodo

Spec == Init /\ [][Next]_vars

\* the disk starts or stops refusing writes
DiskChange ==
    /\ disk' \in {"ok", "denied", "full"} \ {disk}
    /\ UNCHANGED <<todos, next_id, file, adds, family, last>>

\* the same store on a disk that can fail
InitFaults == Init /\ family \in FaultFamilies

NextFaults == Next \/ DiskChange

SpecFaults == InitFaults /\ [][NextFaults]_vars

\* the methods that change the store, with the process started again on the
\* same path at any time
NextRestart ==
    \/ AddTodo
    \/ UpdateTodo
    \/ DeleteTodo
    \/ CompleteTodo
    \/ UncompleteTodo
    \/ Construct

SpecRestart == Init /\ [][NextRestart]_vars

\* what another program leaves at storage_path between two calls
ForeignFiles ==
    {MissingFile, BytesFile, TornFile, ArrayFile, TodosNumberFile,
     [kind |-> "doc"],
     [kind |-> "doc", todos |-> <<[id |-> 1]>>, next_id |-> 2],
     [kind |-> "doc", todos |-> <<[id |-> 1, title |-> "a"]>>, next_id |-> 2],
     [kind |-> "doc", todos |-> <<[id |-> 1, title |-> "a", tags |-> "x"]>>,
      next_id |-> 2]}

FileChange ==
    /\ file' \in ForeignFiles \ {file}
    /\ UNCHANGED <<todos, next_id, disk, adds, family, last>>

\* a store on a path whose file other programs write too
InitLoad == Init /\ family \in FaultFamilies

NextLoad ==
    \/ AddTodo
    \/ CompleteTodo
    \/ DeleteTodo
    \/ Construct
    \/ FileChange

SpecLoad == InitLoad /\ [][NextLoad]_vars

\* add_todo once MaxId records were added: one record more, so that a
\* collection can hold a record between two others
AddTodoLate ==
    /\ next_id = MaxId + 1
    /\ Call("add", 0, add_todo("a", "", "medium", 1))
    /\ adds' = adds + 1

\* one store with up to MaxId + 1 records, its caller updating titles
OrderFamilies == {{"title"}}

InitOrder == Init /\ family \in OrderFamilies

NextOrder ==
    \/ AddTodo
    \/ AddTodoLate
    \/ UpdateTodo
    \/ DeleteTodo
    \/ CompleteTodo
    \/ UncompleteTodo

SpecOrder == InitOrder /\ [][NextOrder]_vars

\* the server: the store is reached through handle_call_tool only
NextTools ==
    \/ ToolAddTodo
    \/ ToolListTodos
    \/ ToolGetTodo
    \/ ToolUpdateTodo
    \/ ToolCompleteTodo
    \/ ToolUncompleteTodo
    \/ ToolDeleteTodo
    \/ ToolUnknown

InitTools == Init /\ family \in ToolFamilies

SpecTools == InitTools /\ [][NextTools]_vars

\* a session of the kind tests/test_todo_server.py runs: records added with
\* and without a priority, then completed, listed, deleted and looked up in
\* any order
ScenarioAdds == {<<"b", "", "high">>, <<"a", "", "medium">>}

ScenarioAdd ==
    /\ next_id <= MaxId
    /\ \E a \in ScenarioAdds, now \in Times :
          Call("add", 0, add_todo(a[1], a[2], a[3], now))
    /\ adds' = adds + 1

InitScenario == Init /\ family \in FaultFamilies

NextScenario ==
    \/ ScenarioAdd
    \/ CompleteTodo
    \/ ToolListTodos
    \/ DeleteTodo
    \/ GetTodo

SpecScenario == InitScenario /\ [][NextScenario]_vars

\* the process stops inside save(): open(storage_path, 'w') has emptied the
\* file and json.dump has written a strict prefix of the document, here the
\* opening and the first n records (n = 0: nothing but the truncation, n =
\* all of them: everything up to the counter and the closing brace)
Prefix(doc, n) ==
    [kind |-> "torn", todos |-> SubSeq(doc.todos, 1, n), next_id |-> 0]

\* the call with outcome o stops in its save; last keeps the collection
\* (out) and the counter (id) the store had before the call, todos and
\* next_id are the memory of the process that is gone
StopIn(o) ==
    /\ o.saved = "ok"
    /\ \E n \in 0..Len(o.todos) :
          Call("stopped", next_id,
               [o EXCEPT !.file = Prefix(o.file, n), !.res = "none",
                         !.out = todos, !.saved = "failed"])

StopInSave ==
    /\ last.op # "stopped"
    /\ \/ /\ next_id <= MaxId
          /\ \E a \in AddArgs, now \in Times :
                StopIn(add_todo(a[1], a[2], a[3], now))
       \/ \E id \in Ids, kw \in UpdateKwargs(family) :
                StopIn(update_todo(id, kw))
       \/ \E id \in Ids : StopIn(delete_todo(id))
       \/ \E id \in Ids, now \in Times : StopIn(complete_todo(id, now))
       \/ \E id \in Ids : StopIn(uncomplete_todo(id))
    /\ UNCHANGED adds

InitCrash == Init /\ family \in OrderFamilies

\* a process that has stopped makes no further call; the next thing that
\* happens on the path is a new TodoStorage(storage_path)
NextCrash ==
    \/ last.op # "stopped" /\ AddTodo
    \/ last.op # "stopped" /\ UpdateTodo
    \/ last.op # "stopped" /\ DeleteTodo
    \/ last.op # "stopped" /\ CompleteTodo
    \/ last.op # "stopped" /\ UncompleteTodo
    \/ StopInSave
    \/ Construct

SpecCrash == InitCrash /\ [][NextCrash]_vars

\* one path used by one store after another: records are added and deleted,
\* every write succeeds, and a new TodoStorage(storage_path) takes over
NextReuse ==
    \/ AddTodo
    \/ AddTodoLate
    \/ DeleteTodo
    \/ Construct

SpecReuse == InitScenario /\ [][NextReuse]_vars

\* well-formed files another program leaves at storage_path: a document
\* with a record and no next_id key, and documents whose next_id is not
\* above the id of their record
CounterFiles ==
    {[kind |-> "doc", todos |-> <<[id |-> 1, title |-> "a"]>>],
     [kind |-> "doc", todos |-> <<[id |-> MaxId, title |-> "a"]>>,
      next_id |-> MaxId],
     [kind |-> "doc", todos |-> <<[id |-> MaxId, title |-> "a"]>>,
      next_id |-> 1]}

CounterFileChange ==
    /\ file' \in CounterFiles \ {file}
    /\ UNCHANGED <<todos, next_id, disk, adds, family, last>>

NextCounter ==
    \/ AddTodo
    \/ DeleteTodo
    \/ Construct
    \/ CounterFileChange

SpecCounter == InitScenario /\ [][NextCounter]_vars

\* ======================================================== properties
ids(ts) == [i \in DOMAIN ts |-> ts[i].id]
Without(ts, k) == [i \in 1..(Len(ts) - 1) |-> IF i < k THEN ts[i] ELSE ts[i + 1]]
Present(id) == get_index(todos, id) # 0

\* a step that is a call of a store method (not the disk changing)
IsCall(op) == last'.op = op /\ disk' = disk

\* C1: on a store made on a missing file, the k-th call of add_todo returns
\* the record with id k, whatever was deleted in between.
C1_KthAddReturnsK ==
    last.op = "add" => last.res = "todo" /\ last.out[1].id = adds

C1_Witness == last.op = "add" /\ adds = 2 /\ Len(todos) = 1

\* C2: every record has completed_at set if and only if completed is true.
C2_CompletedAtIffCompleted ==
    \A i \in DOMAIN todos :
        (todos[i].completed_at # None) <=> (todos[i].completed = TRUE)

UniqueIds(ts) == \A i, j \in DOMAIN ts : i # j => ts[i].id # ts[j].id

IdsKept ==
    IF last'.op = "init"
    THEN file.kind = "doc" => ids(todos') = ids(file.todos)
    ELSE \/ ids(todos') = ids(todos)
         \/ /\ Len(todos') = Len(todos) + 1
            /\ SubSeq(ids(todos'), 1, Len(todos)) = ids(todos)
         \/ \E k \in DOMAIN todos : ids(todos') = Without(ids(todos), k)

\* C3: no two records of the collection share an id, and every step leaves
\* each record that stays in the collection with the id it had (a store made
\* on a file holds the ids of the file).
C3_IdUniqueAndStable == [][UniqueIds(todos') /\ IdsKept]_vars

\* C4: update_todo on an existing id leaves the id of the record it found as
\* it was, whatever the keyword arguments.
C4_UpdateKeepsId ==
    [][(IsCall("update") /\ Present(last'.id)) =>
          LET i == get_index(todos, last'.id) IN todos'[i].id = todos[i].id]_vars

\* C5: a store made on the path of a store whose file holds what its last
\* write wrote has the same records, in the same order, and the same counter.
C5_RoundTrip ==
    [][(last'.op = "init" /\ file = dump(todos, next_id)) =>
          dump(todos', next_id') = dump(todos, next_id)]_vars

Mutators == {"update", "complete", "uncomplete", "delete"}

C7_CompleteThenUncomplete ==
    [][(/\ last.op = "complete"
        /\ IsCall("uncomplete")
        /\ last'.id = last.id
        /\ Present(last'.id)) =>
          LET i == get_index(todos, last'.id)
          IN  /\ next_id' = next_id
              /\ todos' = [todos EXCEPT ![i] = [@ EXCEPT !.completed = FALSE,
                                                         !.completed_at = None]]
       ]_vars

\* C8: delete_todo on an id of the collection returns True, after it get_todo
\* of that id finds nothing, and the other records stay as they were, in
\* their order.
C8_DeleteRemoves ==
    [][(IsCall("delete") /\ Present(last'.id)) =>
          /\ last'.res = "true"
          /\ get_index(todos', last'.id) = 0
          /\ todos' = Without(todos, get_index(todos, last'.id))]_vars

\* C9: delete_todo on an id that is not in the collection returns False,
\* does not call save() and leaves the collection, the counter and the file
\* as they were.
C9_DeleteAbsent ==
    [][(IsCall("delete") /\ ~Present(last'.id)) =>
          /\ last'.res = "false"
          /\ last'.saved = "no"
          /\ UNCHANGED <<todos, next_id, file>>]_vars

C9_Witness ==
    /\ last.op = "delete"
    /\ last.res = "false"
    /\ Len(todos) >= 1
    /\ file # dump(todos, next_id)

Matches(t, arguments) ==
    /\ Has(arguments, "completed") => t.completed = Arg(arguments, "completed")
    /\ Has(arguments, "priority") => t.priority = Arg(arguments, "priority")

Listed(arguments) == SelectSeq(todos, LAMBDA t : Matches(t, arguments))

ListText(ts) ==
    IF ts = <<>> THEN <<"No todos found">> ELSE <<"Todo List:", Lines(ts)>>

\* C10: list_todos returns a text that lists exactly the records that meet
\* every filter given, each once, in the order of the collection.
C10_ListFilter ==
    [][\A a \in ListArguments :
          Tool("list_todos", a, 1) =>
              /\ last'.res = "text"
              /\ \A i \in DOMAIN Listed(a) : Listed(a)[i].priority \in Priorities
              /\ last'.out = ListText(Listed(a))]_vars

\* a step that is TodoStorage(storage_path) on the file as it is (not another
\* program writing the file)
IsConstruct == last'.op = "init" /\ file' = file

EmptyStore == last'.res # "raised" /\ todos' = <<>> /\ next_id' = 1

\* C11: TodoStorage() on a path whose file is missing or holds what is no
\* valid JSON returns a store with no record and the counter at 1, and raises
\* nothing.
C11_MissingOrInvalidFile ==
    [][(IsConstruct /\ file.kind \in {"missing", "bytes", "torn"}) =>
          EmptyStore]_vars

StructuralError(f) ==
    \/ f.kind \in {"array", "todos_number"}
    \/ /\ f.kind = "doc"
       /\ \E i \in DOMAIN get(f, "todos", <<>>) : DOMAIN f.todos[i] # Fields

\* C12: TodoStorage() on a path whose file holds JSON of the wrong shape (no
\* object at the top, a todos value that is no array, a record with a field
\* missing or a field too many) returns a store with no record and the
\* counter at 1, and raises nothing.
C12_WrongShapeFile ==
    [][(IsConstruct /\ StructuralError(file)) => EmptyStore]_vars

AbsentIds == {id \in 0..(MaxId + 1) : ~Present(id)}

AllUpdateKwargs == UNION {UpdateKwargs(fam) : fam \in Families}

\* C13: on an id that is not in the collection get_todo, update_todo (with any
\* keyword arguments), complete_todo and uncomplete_todo return None, do not
\* call save() and leave the collection, the counter and the file as they
\* are; handle_call_tool answers get_todo, update_todo, complete_todo,
\* uncomplete_todo and delete_todo on such an id with the text 'not found'
\* and changes nothing either.
C13_AbsentId ==
    \A id \in AbsentIds :
        /\ get_todo(id) = NoChange("none", <<>>)
        /\ \A kw \in AllUpdateKwargs :
              /\ update_todo(id, kw) = NoChange("none", <<>>)
              /\ ~Has(kw, "id") =>
                    handle_call_tool("update_todo", <<<<"id", id>>>> \o kw, 1)
                        = Text(<<"not found", id>>)
        /\ \A now \in Times : complete_todo(id, now) = NoChange("none", <<>>)
        /\ uncomplete_todo(id) = NoChange("none", <<>>)
        /\ \A name \in IdTools, now \in Times :
              handle_call_tool(name, <<<<"id", id>>>>, now)
                  = Text(<<"not found", id>>)

\* the value kwargs gives the field f, and whether it gives one
Supplied(kwargs, f) == Has(kwargs, f)

\* the record todo with exactly the fields kwargs names set to its values
Overwritten(todo, kwargs) ==
    [f \in Fields |-> IF Supplied(kwargs, f) THEN Arg(kwargs, f) ELSE todo[f]]

\* outcome o is a normal return after a write that failed: the file is as it
\* was or torn by the one attempt, and the call has its result
WriteFailed(o, res) ==
    /\ o.res = res
    /\ o.saved = "failed"
    /\ o.file \in {file, TornFile}
    /\ (res = "todo") => Len(o.out) = 1

OnlyFields(kwargs) == \A i \in DOMAIN kwargs : kwargs[i][1] \in Fields

FieldKwargs == {kw \in AllUpdateKwargs : OnlyFields(kw)}

\* C14: with a disk that refuses the write, add_todo, update_todo,
\* complete_todo, uncomplete_todo and delete_todo return what they return on a
\* working disk and raise nothing, the collection and the counter hold the
\* change, and the file is written at most the once that failed.
C14_WriteFailureKeepsMutation ==
    disk # "ok" =>
        /\ \A a \in AddArgs, now \in Times :
              LET o == add_todo(a[1], a[2], a[3], now)
              IN  /\ WriteFailed(o, "todo")
                  /\ asdict(o.out[1]) =
                        [id |-> next_id, title |-> a[1], description |-> a[2],
                         completed |-> FALSE, created_at |-> now,
                         completed_at |-> None, priority |-> a[3]]
                  /\ o.todos = Append(todos, o.out[1])
                  /\ o.next_id = next_id + 1
        /\ \A id \in Ids \ AbsentIds :
              LET i == get_index(todos, id)
                  Others(o) ==
                      /\ o.next_id = next_id
                      /\ Len(o.todos) = Len(todos)
                      /\ \A j \in DOMAIN todos : j # i => o.todos[j] = todos[j]
                      /\ o.out = <<o.todos[i]>>
              IN  /\ \A now \in Times :
                        LET o == complete_todo(id, now)
                        IN  /\ WriteFailed(o, "todo") /\ Others(o)
                            /\ asdict(o.todos[i]) =
                                  [asdict(todos[i]) EXCEPT
                                      !.completed = TRUE, !.completed_at = now]
                  /\ LET o == uncomplete_todo(id)
                     IN  /\ WriteFailed(o, "todo") /\ Others(o)
                         /\ asdict(o.todos[i]) =
                               [asdict(todos[i]) EXCEPT
                                   !.completed = FALSE, !.completed_at = None]
                  /\ \A kw \in FieldKwargs :
                        LET o == update_todo(id, kw)
                        IN  /\ WriteFailed(o, "todo") /\ Others(o)
                            /\ asdict(o.todos[i]) = Overwritten(todos[i], kw)
                  /\ LET o == delete_todo(id)
                     IN  /\ WriteFailed(o, "true")
                         /\ o.todos = Without(todos, i)
                         /\ o.next_id = next_id

C14_Witness ==
    /\ disk # "ok"
    /\ last.op \in {"add", "delete", "complete", "uncomplete"}
    /\ last.saved = "failed"
    /\ last.res \in {"todo", "true"}
    /\ file # dump(todos, next_id)

\* C15: every call of handle_call_tool whose arguments hold the required keys
\* returns a text and raises nothing, in every state that such calls reach.
C15_NoToolCallRaises == last.op # "init" => last.res = "text"

UnknownNames == {"archive_todo", "ADD_TODO", "todo", ""}

SomeArguments == {<<>>} \cup IdArguments \cup AddArguments

\* C16: handle_call_tool with a name that is none of the seven returns the
\* text 'Unknown tool', raises nothing, does not call save() and leaves the
\* collection, the counter and the file as they are.
C16_UnknownTool ==
    \A name \in UnknownNames, arguments \in SomeArguments :
        LET o == handle_call_tool(name, arguments, 1)
        IN  /\ o.res = "text"
            /\ o.out = <<"Unknown tool", name>>
            /\ o.saved = "no"
            /\ o.todos = todos /\ o.next_id = next_id /\ o.file = file

C16_Witness ==
    /\ last.op = "archive_todo"
    /\ last.res = "text"
    /\ last.out = <<"Unknown tool", "archive_todo">>
    /\ Len(todos) = 2

\* arguments that lack the key the tool requires
LackingArguments(name) ==
    {<<>>} \cup (IF name = "add_todo" THEN {<<<<"description", "d">>>>}
                 ELSE {<<<<"title", "a">>>>})

\* C17: handle_call_tool on arguments without the required key (title for
\* add_todo, id for the five tools that take one) returns a text, raises
\* nothing and leaves the collection, the counter and the file as they are.
C17_MissingArgument ==
    \A name \in {"add_todo"} \cup IdTools :
        \A arguments \in LackingArguments(name) :
            LET o == handle_call_tool(name, arguments, 1)
            IN  /\ o.res = "text"
                /\ o.todos = todos /\ o.next_id = next_id /\ o.file = file

\* keyword arguments that name two data fields
TwoFieldKwargs ==
    {<<p, q>> : p \in KwPairs({"title"}), q \in KwPairs({"priority"})}
    \cup {<<p, q>> : p \in KwPairs({"completed_at"}), q \in KwPairs({"id"})}

\* the keyword arguments over data fields tried in a run: those of the run's
\* family when it is a data field, those of two fields in the other runs
FamilyFieldKwargs ==
    IF family \subseteq Fields THEN UpdateKwargs(family) ELSE TwoFieldKwargs

\* C18: update_todo on an id of the collection with keyword arguments that
\* name data fields (none, one field, or two fields) returns the record it found, with exactly those fields
\* set to the values given; the record's other fields, its place in the
\* collection, every other record and the counter are as they were.
C18_UpdateOverwritesSupplied ==
    \A id \in Ids \ AbsentIds :
        \A kw \in FamilyFieldKwargs :
            LET i == get_index(todos, id)
                o == update_todo(id, kw)
            IN  /\ o.res = "todo"
                /\ o.out = <<o.todos[i]>>
                /\ asdict(o.todos[i]) = Overwritten(todos[i], kw)
                /\ o.todos[i].attrs = todos[i].attrs
                /\ Len(o.todos) = Len(todos)
                /\ \A j \in DOMAIN todos : j # i => o.todos[j] = todos[j]
                /\ o.next_id = next_id

C18_Witness ==
    /\ family = {"title"}
    /\ last.op = "update"
    /\ last.res = "todo"
    /\ Len(todos) = 2
    /\ last.out = <<todos[1]>>
    /\ todos[1].title = "a" /\ todos[1].description = "d"
    /\ todos[2].title = "b"

\* names that are none of the seven data fields
UnknownFieldNames == Methods \cup {"bogus", "__class__"}

\* the results of every later call on the store that outcome o leaves
LaterResults(o) ==
    [id \in Ids |->
        LET i == get_index(o.todos, id)
        IN  IF i = 0 THEN <<"none">>
            ELSE <<asdict(o.todos[i]),
                   IF "complete" \in o.todos[i].attrs THEN "raised" ELSE "todo",
                   IF "uncomplete" \in o.todos[i].attrs THEN "raised" ELSE "todo">>]

\* C19: update_todo with a keyword that names no data field (bogus, complete,
\* uncomplete, __class__) does what update_todo with no keyword does: the same
\* result, the same collection, counter and file, and the same result of
\* every later get_todo, complete_todo and uncomplete_todo.
C19_UnknownNamesIgnored ==
    \A id \in Ids, key \in UnknownFieldNames :
        LET o == update_todo(id, <<<<key, "x">>>>)
            e == update_todo(id, <<>>)
        IN  /\ o.res = e.res
            /\ dump(o.todos, o.next_id) = dump(e.todos, e.next_id)
            /\ o.file = e.file
            /\ LaterResults(o) = LaterResults(e)

\* C20: the created_at of a record is not empty, and no call changes the
\* created_at of a record that stays in the collection.
C20_CreatedAtKept ==
    [][/\ \A i \in DOMAIN todos' : todos'[i].created_at # EmptyStr
       /\ (IsCall("update") \/ IsCall("complete") \/ IsCall("uncomplete")
           \/ IsCall("add")) =>
             \A i \in DOMAIN todos : todos'[i].created_at = todos[i].created_at
       /\ IsCall("delete") =>
             \A i \in DOMAIN todos' :
                \E j \in DOMAIN todos :
                    /\ todos'[i].id = todos[j].id
                    /\ todos'[i].created_at = todos[j].created_at]_vars

\* C21: the priority of every record of the collection is low, medium or
\* high, whatever add_todo and update_todo were given.
C21_PriorityInEnum == \A i \in DOMAIN todos : todos[i].priority \in Priorities

\* the record add_todo is to make
NewRecord(id, title, description, priority, now) ==
    [id |-> id, title |-> title, description |-> description,
     completed |-> FALSE, created_at |-> now, completed_at |-> None,
     priority |-> priority]

\* C22: add_todo puts exactly one record at the end of the collection and
\* returns it: its id is the counter before the call, its title, description
\* and priority are the values given (description "" and priority medium when
\* the tool call leaves them out), completed is False, completed_at None,
\* created_at not empty; the counter is one higher and the records that were
\* there are as they were.
C22_AddAppends ==
    /\ \A a \in AddArgs, now \in Times :
          LET o == add_todo(a[1], a[2], a[3], now)
          IN  /\ o.res = "todo"
              /\ Len(o.out) = 1
              /\ asdict(o.out[1]) = NewRecord(next_id, a[1], a[2], a[3], now)
              /\ o.out[1].created_at # EmptyStr
              /\ o.todos = Append(todos, o.out[1])
              /\ o.next_id = next_id + 1
    /\ \A arguments \in AddArguments, now \in Times :
          LET o == handle_call_tool("add_todo", arguments, now)
              title == Arg(arguments, "title")
              description == IF Has(arguments, "description")
                             THEN Arg(arguments, "description") ELSE ""
              priority == IF Has(arguments, "priority")
                          THEN Arg(arguments, "priority") ELSE "medium"
          IN  /\ o.res = "text"
              /\ o.out = <<"Added todo item", next_id, title>>
              /\ Len(o.todos) = Len(todos) + 1
              /\ SubSeq(o.todos, 1, Len(todos)) = todos
              /\ asdict(o.todos[Len(o.todos)])
                    = NewRecord(next_id, title, description, priority, now)
              /\ o.next_id = next_id + 1

C22_Witness ==
    /\ last.op = "add"
    /\ Len(todos) = 2
    /\ last.out = <<todos[2]>>
    /\ todos[1].id = 1 /\ todos[2].id = 2
    /\ next_id = 3

\* C23: complete_todo on an id of the collection leaves that record completed
\* with completed_at set and changes no other field of it and no other
\* record; a second complete_todo of the same id right after changes at most
\* the value of completed_at.
C23_CompleteIdempotent ==
    [][(IsCall("complete") /\ Present(last'.id)) =>
          LET i == get_index(todos, last'.id)
              at == todos'[i].completed_at
          IN  /\ Len(todos') = Len(todos)
              /\ todos'[i].completed = TRUE
              /\ at # None
              /\ todos' = [todos EXCEPT ![i] = [@ EXCEPT !.completed = TRUE,
                                                         !.completed_at = at]]
              /\ (last.op = "complete" /\ last.id = last'.id) =>
                    todos' = [todos EXCEPT ![i] = [@ EXCEPT !.completed_at = at]]
       ]_vars

\* the records are in the order of their ids, which with ids that no update
\* overwrites is the order in which add_todo made them
InAddOrder(ts) == \A i, j \in DOMAIN ts : i < j => ts[i].id < ts[j].id

\* at most one place of the collection holds another value than before
OnePlaceChanged ==
    /\ Len(todos') = Len(todos)
    /\ \E i \in DOMAIN todos \cup {0} :
          \A j \in DOMAIN todos : j # i => todos'[j] = todos[j]

\* C24: the collection holds its records in the order in which they were
\* added: add_todo puts the record at the end, update_todo, complete_todo and
\* uncomplete_todo change the record in its place and neither the length nor
\* the other places, delete_todo takes one record out and leaves the others
\* in their order.
C24_InsertionOrder ==
    [][/\ InAddOrder(todos')
       /\ IsCall("add") => todos' = Append(todos, last'.out[1])
       /\ (IsCall("update") \/ IsCall("complete") \/ IsCall("uncomplete")) =>
             /\ OnePlaceChanged
             /\ ids(todos') = ids(todos)
       /\ IsCall("delete") =>
             \/ todos' = todos /\ last'.res = "false"
             \/ \E k \in DOMAIN todos : todos' = Without(todos, k)]_vars

C24_Witness ==
    /\ last.op = "delete"
    /\ last.res = "true"
    /\ Len(todos) = 2
    /\ todos[1].id = 1 /\ todos[2].id = MaxId + 1

\* C25: the counter of a store never goes down: add_todo raises it by exactly
\* 1, and get_todo, get_all_todos, update_todo (any keywords), complete_todo,
\* uncomplete_todo and delete_todo, whether or not they find a record, leave
\* it as it is.
C25_CounterMonotone ==
    [][/\ next_id' >= next_id
       /\ IF last'.op = "add" THEN next_id' = next_id + 1
          ELSE last'.op \in {"get", "list"} \cup Mutators /\ next_id' = next_id
      ]_vars

C25_Witness ==
    /\ last.op = "delete"
    /\ last.res = "true"
    /\ todos = <<>>
    /\ next_id = MaxId + 1

\* the record is named in the text of list_todos: its line (state, id,
\* priority sign, title) is one of the lines
Named(t, lines) ==
    \E j \in DOMAIN lines :
        /\ Len(lines[j]) = 4
        /\ lines[j][2] = t.id
        /\ lines[j][4] = t.title

\* C26: in every state and for every choice of filters, list_todos answers
\* with one text; the text is 'No todos found' exactly when no record of the
\* collection meets the filters (an empty collection included), and otherwise
\* it starts with 'Todo List:' and names every record that meets them.
C26_ListMessage ==
    \A a \in ListArguments :
        LET o == handle_call_tool("list_todos", a, 1)
        IN  /\ o.res = "text"
            /\ (o.out = <<"No todos found">>) <=> (Listed(a) = <<>>)
            /\ Listed(a) # <<>> =>
                  /\ Len(o.out) = 2
                  /\ o.out[1] = "Todo List:"
                  /\ \A i \in DOMAIN Listed(a) : Named(Listed(a)[i], o.out[2])

\* the states of the scenario: a fresh store, after add("Buy milk",
\* priority="high"), after add("Call mom"), after complete_todo(1), after
\* delete_todo(2); "b" stands for Buy milk and "a" for Call mom
BuyMilk(t) == NewRecord(1, "b", "", "high", t)
CallMom(t) == NewRecord(2, "a", "", "medium", t)

IsBuyMilk(todo) == \E t \in Times : asdict(todo) = BuyMilk(t)
IsCallMom(todo) == \E t \in Times : asdict(todo) = CallMom(t)
IsBuyMilkDone(todo) ==
    \E t \in Times, at \in Times :
        asdict(todo) = [BuyMilk(t) EXCEPT !.completed = TRUE,
                                          !.completed_at = at]

Fresh == todos = <<>> /\ next_id = 1
Added1 == Len(todos) = 1 /\ IsBuyMilk(todos[1]) /\ next_id = 2
Added2 ==
    /\ Len(todos) = 2
    /\ IsBuyMilk(todos[1])
    /\ IsCallMom(todos[2])
    /\ next_id = 3
Completed1 ==
    /\ Len(todos) = 2
    /\ IsBuyMilkDone(todos[1])
    /\ IsCallMom(todos[2])
    /\ next_id = 3
Deleted2 == Len(todos) = 1 /\ IsBuyMilkDone(todos[1]) /\ next_id = 3

\* C27: from a fresh store each call of the scenario has the result the
\* specification gives and leads to the next state of the scenario:
\* add("Buy milk", priority="high") returns a record with id 1,
\* add("Call mom") one with id 2, complete_todo(1) leaves record 1 completed
\* with a completed_at that is not None and record 2 as it was,
\* list_todos(completed=true) lists record 1 and nothing else, delete_todo(2)
\* returns True and leaves record 1 alone, and get_todo(2) then returns None.
C27_Scenario ==
    [][/\ (Fresh /\ \E now \in Times :
                        Call("add", 0, add_todo("b", "", "high", now)))
            => last'.res = "todo" /\ last'.out[1].id = 1 /\ Added1'
       /\ (Added1 /\ \E now \in Times :
                        Call("add", 0, add_todo("a", "", "medium", now)))
            => /\ last'.res = "todo"
               /\ last'.out[1].id = 2
               /\ Added2'
               /\ todos'[1] = todos[1]
       /\ (Added2 /\ \E now \in Times :
                        Call("complete", 1, complete_todo(1, now)))
            => /\ Completed1'
               /\ todos'[1].completed
               /\ todos'[1].completed_at # None
               /\ todos'[1].created_at = todos[1].created_at
               /\ todos'[2] = todos[2]
       /\ (Completed1 /\ Tool("list_todos", <<<<"completed", TRUE>>>>, 1))
            => /\ last'.res = "text"
               /\ last'.out = <<"Todo List:", <<<<"done", 1, "red", "b">>>>>>
               /\ todos' = todos
               /\ next_id' = next_id
       /\ (Completed1 /\ Call("delete", 2, delete_todo(2)))
            => last'.res = "true" /\ Deleted2' /\ todos' = <<todos[1]>>
       /\ (Deleted2 /\ Call("get", 2, get_todo(2)))
            => last'.res = "none" /\ Deleted2' /\ todos' = todos
      ]_vars

C27_Witness ==
    /\ last.op = "get"
    /\ last.id = 2
    /\ last.res = "none"
    /\ Deleted2
    /\ file = dump(todos, next_id)

\* the call wrote nothing and left the collection with every record, the
\* counter and the file as they are
ReadOnly(o) ==
    /\ o.todos = todos
    /\ o.next_id = next_id
    /\ o.file = file
    /\ o.saved = "no"

\* C29: in every state get_todo and get_all_todos of the store and get_todo
\* and list_todos of handle_call_tool, with any id and any filters, found or
\* not and also when the call raises, leave the collection, every record,
\* the counter and the file unchanged; get_all_todos returns the whole
\* collection, and the records a filter of list_todos leaves out are still in
\* the collection after the call.
C29_ReadOnly ==
    /\ \A id \in Ids :
          /\ ReadOnly(get_todo(id))
          /\ ReadOnly(handle_call_tool("get_todo", <<<<"id", id>>>>, 1))
          /\ Present(id) => get_todo(id).out = <<todos[get_index(todos, id)]>>
    /\ ReadOnly(get_all_todos)
    /\ get_all_todos.out = todos
    /\ \A a \in ListArguments :
          LET o == handle_call_tool("list_todos", a, 1)
          IN  /\ ReadOnly(o)
              /\ \A i \in DOMAIN todos :
                    ~Matches(todos[i], a) => o.todos[i] = todos[i]

C29_Witness ==
    /\ last.op = "list"
    /\ last.out = todos
    /\ Len(todos) = 2
    /\ \E i \in DOMAIN todos : todos[i].completed
    /\ file = dump(todos, next_id)

\* a step that constructs a store on the file a stopped save left
RestartAfterStop == last.op = "stopped" /\ IsConstruct

\* the new store holds what the stopped process had in memory
HoldsNewState == dump(todos', next_id') = dump(todos, next_id)

\* the new store holds some but not all of the records that were being
\* written
HoldsPartial ==
    \E n \in 1..(Len(todos) - 1) :
        dump(todos', 0).todos = SubSeq(dump(todos, 0).todos, 1, n)

\* the new store holds what the store held before the call that stopped
HoldsPreWrite == dump(todos', next_id') = dump(last.out, last.id)

\* C30 as stated: after a stop inside save the next store on the path does
\* not raise, holds the complete new state or nothing with the counter at 1,
\* and never a part of the collection or the state before the write.
C30_AsStated ==
    [][RestartAfterStop =>
          /\ last'.res # "raised"
          /\ HoldsNewState \/ (todos' = <<>> /\ next_id' = 1)
          /\ ~HoldsPartial
          /\ ~HoldsPreWrite]_vars

\* C30, amended: after a stop inside save the next store on the path does
\* not raise, holds the complete new state or nothing with the counter at 1,
\* never a part of the collection, and the state before the write only when
\* that state was itself the empty collection with the counter at 1.
C30_StopInSave ==
    [][RestartAfterStop =>
          /\ last'.res # "raised"
          /\ HoldsNewState \/ (todos' = <<>> /\ next_id' = 1)
          /\ ~HoldsPartial
          /\ HoldsPreWrite => (last.out = <<>> /\ last.id = 1)]_vars

C30_Witness ==
    /\ last.op = "init"
    /\ last.res = "none"
    /\ file.kind = "torn"
    /\ Len(file.todos) = 1
    /\ todos = <<>>
    /\ next_id = 1

\* C31: ids are not used again after a restart. With adds, deletes and
\* restarts only and every write succeeding, the counter is above the id of
\* every add so far: an add returns the counter as the id and leaves the
\* counter above it, a delete leaves the counter alone also when it removes
\* the record with the highest id, and a new store on the path starts with
\* the counter the old one had; so the first add of the new store returns an
\* id above every id returned before.
C31_NoReuseAcrossRestart ==
    [][/\ next_id' >= next_id
       /\ \A i \in DOMAIN todos' : todos'[i].id < next_id'
       /\ last'.op = "init" =>
             /\ last'.res # "raised"
             /\ next_id' = next_id
             /\ ids(todos') = ids(todos)
       /\ last'.op = "add" =>
             /\ last'.out[1].id = next_id
             /\ last'.out[1].id < next_id'
             /\ \A i \in DOMAIN todos : todos[i].id < last'.out[1].id
       /\ last'.op = "delete" => next_id' = next_id]_vars

\* the first add of a store made on a path whose records 1 and 2 had both
\* been deleted: it returns id 3
C31_Witness ==
    /\ last.op = "add"
    /\ adds = 1
    /\ Len(todos) = 1
    /\ last.out[1].id = MaxId + 1
    /\ todos[1].id = MaxId + 1

\* C32: in every reachable state of a store, one made on a well-formed file
\* without a next_id key or with a next_id not above the ids of its records
\* included, the counter is greater than the id of every record of the
\* collection.
C32_CounterAboveIds == \A i \in DOMAIN todos : todos[i].id < next_id

====
